---- MODULE Spec2Model ----
(***************************************************************************)
(* WeMemory: session segmentation (data_loader/session.py), the hybrid     *)
(* vector store (retrieval/vector_store.py, retrieval/hybrid.py) and the   *)
(* recall service (api/services/recall_service.py).                        *)
(*                                                                         *)
(* Three specifications share the module:                                  *)
(*   SpecSession  SessionBuilder.split_into_sessions over a message stream *)
(*   SpecStore    HybridVectorStore: add, index builds, searches           *)
(*   SpecRecall   RecallService over a loaded store, with its cache        *)
(*   SpecEmbedding  recall and simple_search with an embedding provider    *)
(*                that may fail                                            *)
(* Times of the session builder are in minutes; scores are fixed-point     *)
(* with Scale units for 1.0.                                               *)
(***************************************************************************)
EXTENDS Integers, Sequences, FiniteSets, TLC

VARIABLES
    \* ---- SessionBuilder.split_into_sessions
    messages,        \* the input list, as far as the loop has consumed it
    current_batch,   \* indices (into messages) of the batch being filled
    batches,         \* the batches Phase 1 has emitted
    sessions,        \* the returned list (filled when the call returns)
    sb_pc,           \* "phase1" while the loop runs, "done" after return
    \* ---- SimpleVectorStore / HybridVectorStore
    content_embeddings,   \* list of content vectors
    context_embeddings,   \* list of context vectors
    metadata,             \* list of metadata dicts
    bm25_index,           \* [built, corpus]: None, or BM25Okapi over the tokens of
                          \* the documents stored when it was built
    use_faiss,            \* use_faiss and FAISS_AVAILABLE
    stable_argsort,       \* whether the numpy build's default argsort keeps equal
                          \* keys in index order (kind is left at 'quicksort')
    sessions_per_vector,  \* corpus scale: the stored sessions one modelled
                          \* vector stands for, N = scale * number of vectors
    faiss_built,
    content_faiss_index,  \* the normalized vectors added to the HNSW index
    context_faiss_index,
    hs_call,              \* the last search call on the store
    hs_result,            \* and what it returned (or that it raised)
    \* ---- RecallService
    cache,           \* _cache: cache key -> [data, timestamp]
    now,             \* time.time()
    n_calls,         \* recall invocations so far
    rc_call,         \* the inputs of the last recall invocation
    rc_ret,          \* and the dict it returned
    from_cache,      \* whether it returned at the cache probe
    provider_failed, \* whether get_embeddings fell back to zero vectors in the
                     \* last call that embedded a query
    api_call,        \* the last method called on the service
    api_resp,        \* and its response
    first_ret,       \* recall inputs -> the memories first returned for them
    \* ---- GoogleEmbeddingClient.get_embeddings
    texts,           \* the argument of the call
    ge_i,            \* the loop variable i
    all_embeddings,  \* the list being returned
    requests,        \* the provider requests made: first text, size, outcome
    ge_pc            \* "loop" while the call runs, "done" after return

sbVars == <<messages, current_batch, batches, sessions, sb_pc>>

storeVars == <<content_embeddings, context_embeddings, metadata, bm25_index,
               use_faiss, stable_argsort, sessions_per_vector, faiss_built,
               content_faiss_index, context_faiss_index>>

searchVars == <<hs_call, hs_result>>

rcVars ==
    <<cache, now, n_calls, rc_call, rc_ret, from_cache, provider_failed, api_call,
      api_resp, first_ret>>

geVars == <<texts, ge_i, all_embeddings, requests, ge_pc>>

vars == <<sbVars, storeVars, searchVars, rcVars, geVars>>

(***************************************************************************)
(* Generic helpers                                                         *)
(***************************************************************************)
Last(s) == s[Len(s)]

Range(s) == {s[i] : i \in 1..Len(s)}

\* Python s[-n:] : the last n elements (all of s when it is shorter).
Tail_n(s, n) == IF Len(s) <= n THEN s ELSE SubSeq(s, Len(s) - n + 1, Len(s))

\* Python s[:n] : the first n elements (all of s when it is shorter).
Head_n(s, n) == IF Len(s) <= n THEN s ELSE SubSeq(s, 1, n)

(***************************************************************************)
(* SessionBuilder                                                          *)
(***************************************************************************)
TimeGap == 30
MinMessages == 3
MaxMessages == 20
OverlapWindow == 5
OverlapMaxGap == 120

\* Bounds of the explored message streams.
MaxLen == 30
MaxSpecial == 1

RegularGap == 5
Gaps == {RegularGap, 90, 150}
Contents == {"hi", "", " "}

\* str.strip() on the modelled contents.
Strip(c) == IF c = " " THEN "" ELSE c

IsText(msg) == msg.msg_type = 0

IsBlank(msg) == msg.content = "" \/ Len(Strip(msg.content)) = 0

Admitted(msg) == IsText(msg) /\ ~IsBlank(msg)

TsOf(i) == messages[i].timestamp

\* A message of the stream that is not "text, non-blank, RegularGap after its
\* predecessor"; the explored streams hold at most MaxSpecial of them.
IsSpecial(i) ==
    \/ ~Admitted(messages[i])
    \/ i > 1 /\ TsOf(i) - TsOf(i - 1) # RegularGap

SpecialCount == Cardinality({i \in 1..Len(messages) : IsSpecial(i)})

NextTimestamps ==
    IF messages = <<>> THEN {0}
    ELSE {Last(messages).timestamp + g :
            g \in IF SpecialCount < MaxSpecial THEN Gaps ELSE {RegularGap}}

\* should_split of the loop body, for the batch being filled and the next
\* admitted message's timestamp.
ShouldSplitNoCap(batch, ts) ==
    /\ batch # <<>>
    /\ ts - TsOf(Last(batch)) > TimeGap

ShouldSplit(batch, ts) ==
    /\ batch # <<>>
    /\ \/ ts - TsOf(Last(batch)) > TimeGap
       \/ Len(batch) >= MaxMessages

\* The batch is emitted and restarted only when it splits AND has min_messages.
Flushes(batch, ts) == ShouldSplit(batch, ts) /\ Len(batch) >= MinMessages

\* current_batch after the loop body has handled admitted message i.
BatchAfterKeep(batch, ts, i) == Append(batch, i)

\* a loop body that starts a new batch at every split, dropping a short batch
BatchAfterDrop(batch, ts, i) ==
    Append(IF ShouldSplit(batch, ts) THEN <<>> ELSE batch, i)

BatchAfter(batch, ts, i) ==
    Append(IF Flushes(batch, ts) THEN <<>> ELSE batch, i)

BuildSession(idxs, type) ==
    [session_type |-> type,
     messages     |-> idxs,
     start_time   |-> TsOf(idxs[1]),
     end_time     |-> TsOf(Last(idxs))]

\* Phase 3: prev_batch[-overlap_window:] + next_batch[:overlap_window]
OverlapMsgsWide(prev, next) == prev \o Head_n(next, OverlapWindow)

OverlapMsgs(prev, next) ==
    Tail_n(prev, OverlapWindow) \o Head_n(next, OverlapWindow)

\* a gap measured from the first message of the earlier batch
BoundaryGapFromStart(bs, k) == TsOf(bs[k + 1][1]) - TsOf(bs[k][1])

BoundaryGap(bs, k) == TsOf(bs[k + 1][1]) - TsOf(Last(bs[k]))

HasOverlapWithinTimeGap(bs, k) ==
    /\ ~(BoundaryGap(bs, k) > TimeGap)
    /\ Len(OverlapMsgs(bs[k], bs[k + 1])) >= MinMessages

HasOverlap(bs, k) ==
    /\ ~(BoundaryGap(bs, k) > OverlapMaxGap)
    /\ Len(OverlapMsgs(bs[k], bs[k + 1])) >= MinMessages

RECURSIVE OverlapSessionsFrom(_, _)
OverlapSessionsFrom(bs, k) ==
    IF k >= Len(bs) THEN <<>>
    ELSE (IF HasOverlap(bs, k)
          THEN <<BuildSession(OverlapMsgs(bs[k], bs[k + 1]), "overlap")>>
          ELSE <<>>) \o OverlapSessionsFrom(bs, k + 1)

MainSessions(bs) == [k \in 1..Len(bs) |-> BuildSession(bs[k], "main")]

\* The batches after the loop: the tail batch is emitted when it has min_messages.
FinalBatches ==
    IF Len(current_batch) >= MinMessages
    THEN Append(batches, current_batch) ELSE batches

SessionInit ==
    /\ messages = <<>>
    /\ current_batch = <<>>
    /\ batches = <<>>
    /\ sessions = <<>>
    /\ sb_pc = "phase1"

\* Loop body, `if msg.msg_type != 0: continue`
SkipNonText ==
    /\ sb_pc = "phase1"
    /\ Len(messages) < MaxLen
    /\ SpecialCount < MaxSpecial
    /\ \E ts \in NextTimestamps :
         messages' = Append(messages,
                            [timestamp |-> ts, msg_type |-> 1, content |-> "hi"])
    /\ UNCHANGED <<current_batch, batches, sessions, sb_pc>>
    /\ UNCHANGED <<storeVars, searchVars, rcVars, geVars>>

\* Loop body, `if not msg.content or len(msg.content.strip()) == 0: continue`
SkipBlank ==
    /\ sb_pc = "phase1"
    /\ Len(messages) < MaxLen
    /\ SpecialCount < MaxSpecial
    /\ \E ts \in NextTimestamps, c \in Contents :
         LET msg == [timestamp |-> ts, msg_type |-> 0, content |-> c] IN
         /\ IsBlank(msg)
         /\ messages' = Append(messages, msg)
    /\ UNCHANGED <<current_batch, batches, sessions, sb_pc>>
    /\ UNCHANGED <<storeVars, searchVars, rcVars, geVars>>

\* Loop body for an admitted message: split decision, flush, append.
AdmitMessage ==
    /\ sb_pc = "phase1"
    /\ Len(messages) < MaxLen
    /\ \E ts \in NextTimestamps :
         LET msg == [timestamp |-> ts, msg_type |-> 0, content |-> "hi"]
             i   == Len(messages) + 1
         IN
         /\ messages' = Append(messages, msg)
         /\ batches' = IF Flushes(current_batch, ts)
                       THEN Append(batches, current_batch) ELSE batches
         /\ current_batch' = BatchAfter(current_batch, ts, i)
    /\ UNCHANGED <<sessions, sb_pc>>
    /\ UNCHANGED <<storeVars, searchVars, rcVars, geVars>>

\* End of the loop: tail flush, Phase 2 (main sessions), Phase 3 (overlaps), return.
ReturnSessions ==
    /\ sb_pc = "phase1"
    /\ batches' = FinalBatches
    /\ sessions' = MainSessions(FinalBatches) \o OverlapSessionsFrom(FinalBatches, 1)
    /\ sb_pc' = "done"
    /\ UNCHANGED <<messages, current_batch>>
    /\ UNCHANGED <<storeVars, searchVars, rcVars, geVars>>

NextSession == SkipNonText \/ SkipBlank \/ AdmitMessage \/ ReturnSessions

(***************************************************************************)
(* Numbers: a float x is the integer x * Scale; vectors are tuples of      *)
(* small integers whose norms are integers, so that cosines are exact.     *)
(***************************************************************************)
Scale == 100 * 100

Max(a, b) == IF a >= b THEN a ELSE b

Min(a, b) == IF a <= b THEN a ELSE b

SeqMax(s) == CHOOSE m \in Range(s) : \A x \in Range(s) : x <= m

RECURSIVE SumTo(_, _)
SumTo(f, n) == IF n = 0 THEN 0 ELSE f[n] + SumTo(f, n - 1)

Dot(a, b) == SumTo([i \in 1..Len(a) |-> a[i] * b[i]], Len(a))

\* np.linalg.norm, on vectors whose norm is an integer
Norm(v) == CHOOSE n \in 0..(Dot(v, v)) : n * n = Dot(v, v)

\* v / (norm(v) + 1e-8) and faiss.normalize_L2(v): unit length in fixed point,
\* the zero vector stays zero.
Normalize(v) ==
    IF Norm(v) = 0 THEN [i \in 1..Len(v) |-> 0]
    ELSE [i \in 1..Len(v) |-> (v[i] * Scale) \div Norm(v)]

\* cosine similarity of two vectors: np.dot of the normalized vectors
Cosine(a, b) == Dot(Normalize(a), Normalize(b)) \div Scale

\* squared L2 distance of two normalized (fixed-point) vectors, as IndexHNSWFlat
\* reports it
L2Sq(a, b) ==
    SumTo([i \in 1..Len(a) |-> (a[i] - b[i]) * (a[i] - b[i])], Len(a)) \div Scale

\* Insert x into the ascending sequence s.
RECURSIVE InsertAsc(_, _)
InsertAsc(s, x) ==
    IF s = <<>> THEN <<x>>
    ELSE IF x < s[1] THEN <<x>> \o s
    ELSE <<s[1]>> \o InsertAsc(Tail(s), x)

RECURSIVE SortAsc(_)
SortAsc(s) == IF s = <<>> THEN <<>> ELSE InsertAsc(SortAsc(Tail(s)), s[1])

\* np.argsort(-scores): positions by descending score. The default sort kind
\* promises no order among equal scores: a build either keeps them in index
\* order or not (taken here as the larger index first).
RECURSIVE ArgsortDescFrom(_, _)
ArgsortDescFrom(scores, left) ==
    IF left = {} THEN <<>>
    ELSE LET best == CHOOSE i \in left :
                        \A j \in left : \/ scores[i] > scores[j]
                                        \/ /\ scores[i] = scores[j]
                                           /\ IF stable_argsort THEN i <= j ELSE i >= j
         IN <<best>> \o ArgsortDescFrom(scores, left \ {best})

\* positions left in storage order
ArgsortNone(scores) == [i \in 1..Len(scores) |-> i]

ArgsortDesc(scores) == ArgsortDescFrom(scores, 1..Len(scores))

(***************************************************************************)
(* The stored sessions and the queries the model draws from                *)
(***************************************************************************)
MaxStore == 4

Meta(conv, ts, parts, text) ==
    [conversation_name |-> conv, start_timestamp |-> ts,
     participants |-> parts, content_text |-> text]

Doc(cvec, xvec, meta) ==
    [content_embedding |-> cvec, context_embedding |-> xvec, metadata |-> meta]

\* content_text is given as the tokens jieba.cut_for_search yields for it (the
\* enriched text holds one "name: content" line per message).
DocPool ==
    << Doc(<<1, 0>>, <<0, 1>>,
           Meta("chatA", 1000, {"alice", "bob"}, {"alice", "bob", "ai", "project"})),
       Doc(<<0, 1>>, <<1, 0>>,
           Meta("chatA", 2000, {"alice"}, {"alice", "lunch"})),
       Doc(<<3, 4>>, <<0, 1>>,
           Meta("chatB", 3000, {"bob", "carol"}, {"bob", "carol", "ai"})),
       Doc(<<0, 0>>, <<0, 0>>,
           Meta("chatB", 4000, {"carol"}, {"carol", "lunch"})) >>

\* Sessions are ingested in the order of the pool: the documents that may
\* still be added are those after the last one stored.
PoolIndex(meta) == CHOOSE k \in 1..Len(DocPool) : DocPool[k].metadata = meta

Addable(stored) ==
    {DocPool[k] : k \in {j \in 1..Len(DocPool) :
                           stored = <<>> \/ j > PoolIndex(Last(stored))}}

\* filters: keys is the set of keys of the dict (empty for None and for {}).
Filter(keys, tr, parts) ==
    [keys |-> keys, time_range |-> tr, participants |-> parts]

NoFilter == Filter({}, <<0, 0>>, {})

TimeRanges == {<<1500, 3500>>}

ParticipantSets == {{"alice"}}

FilterPool ==
    {NoFilter}
    \cup {Filter({"time_range"}, tr, {}) : tr \in TimeRanges}
    \cup {Filter({"participants"}, <<0, 0>>, ps) : ps \in ParticipantSets}
    \cup {Filter({"time_range", "participants"}, tr, ps) :
            tr \in TimeRanges, ps \in ParticipantSets}

NoVector == <<>>

\* a query: its text (as jieba tokens), the embedding of the text and the
\* optional context embedding
QueryPool ==
    { [text |-> {"ai", "project"}, embedding |-> <<1, 0>>, context |-> NoVector],
      [text |-> {"ai", "project"}, embedding |-> <<1, 0>>, context |-> <<0, 1>>],
      [text |-> {"dinner"},        embedding |-> <<3, 4>>, context |-> NoVector] }

TopKPool == {1, 3}

(***************************************************************************)
(* HybridVectorStore                                                       *)
(***************************************************************************)
FaissThreshold == 5000

\* The corpus scales explored: vector by vector, and in blocks large enough
\* for two vectors to reach the FAISS threshold.
CorpusScales == {1, FaissThreshold \div 2}

NoIndex == [built |-> FALSE, corpus |-> <<>>]

\* BM25Okapi (rank_bm25, the library hybrid.py imports) with its defaults
\* k1 = 1.5, b = 0.75, epsilon = 0.25. A text is the set of its tokens, so every
\* term frequency is 1 and a document's length is the size of its set.
\* math.log of the odd integers the idf meets, in units of 1 / Scale.
LnOdd ==
    [n \in {1, 3, 5, 7, 9, 11, 13} |->
       CASE n = 1 -> 0 [] n = 3 -> 10986 [] n = 5 -> 16094 [] n = 7 -> 19459
         [] n = 9 -> 21972 [] n = 11 -> 23979 [] n = 13 -> 25649]

\* nd[word]: the number of documents that hold the word
DocFreq(word, corpus) == Cardinality({i \in 1..Len(corpus) : word \in corpus[i]})

\* log(corpus_size - freq + 0.5) - log(freq + 0.5)
RawIdf(word, corpus) ==
    LnOdd[2 * (Len(corpus) - DocFreq(word, corpus)) + 1]
      - LnOdd[2 * DocFreq(word, corpus) + 1]

RECURSIVE IdfSum(_, _)
IdfSum(words, corpus) ==
    IF words = {} THEN 0
    ELSE LET w == CHOOSE x \in words : TRUE
         IN RawIdf(w, corpus) + IdfSum(words \ {w}, corpus)

\* _calc_idf: a negative idf is replaced by epsilon * average_idf; a query word
\* the corpus does not hold counts 0
Idf(word, corpus) ==
    LET words == UNION Range(corpus)
        eps   == (IdfSum(words, corpus) \div Cardinality(words)) \div 4
    IN IF word \notin words THEN 0
       ELSE IF RawIdf(word, corpus) < 0 THEN eps
       ELSE RawIdf(word, corpus)

\* the sum of the lengths of the documents
RECURSIVE TotalLen(_, _)
TotalLen(corpus, n) == IF n = 0 THEN 0 ELSE Cardinality(corpus[n]) + TotalLen(corpus, n - 1)

\* idf * tf * (k1 + 1) / (tf + k1 * (1 - b + b * doc_len / avgdl)) for tf = 1,
\* which is idf * 20 * total / (11 * total + 9 * corpus_size * doc_len)
TermScore(word, doc, corpus) ==
    IF word \notin doc THEN 0
    ELSE (Idf(word, corpus) * 20 * TotalLen(corpus, Len(corpus)))
           \div (11 * TotalLen(corpus, Len(corpus))
                   + 9 * Len(corpus) * Cardinality(doc))

RECURSIVE ScoreSum(_, _, _)
ScoreSum(words, doc, corpus) ==
    IF words = {} THEN 0
    ELSE LET w == CHOOSE x \in words : TRUE
         IN TermScore(w, doc, corpus) + ScoreSum(words \ {w}, doc, corpus)

\* BM25Okapi.get_scores: one raw score per indexed document
Bm25Scores(query_tokens, corpus) ==
    [i \in 1..Len(corpus) |-> ScoreSum(query_tokens, corpus[i], corpus)]

\* bm25_scores / max_bm25, with max_bm25 = 1.0 when the maximum is not positive
Bm25Norm(scores) ==
    LET max_bm25 == IF SeqMax(scores) > 0 THEN SeqMax(scores) ELSE Scale
    IN [i \in 1..Len(scores) |-> (scores[i] * Scale) \div max_bm25]

\* _linear_vector_search: cosine of every stored vector with the query
LinearSimilarities(query, embeddings) ==
    [i \in 1..Len(embeddings) |-> Cosine(embeddings[i], query)]

\* index.search(query, ntotal): the distances of the ntotal nearest neighbours,
\* nearest first (the labels come back in a second array)
FaissSearchDistances(query, index) ==
    SortAsc([i \in 1..Len(index) |-> L2Sq(Normalize(query), index[i])])

\* _faiss_vector_search: 1 - distances[0] / 2, position by position
FaissSimilarities(query, index) ==
    LET d == FaissSearchDistances(query, index)
    IN [j \in 1..Len(d) |-> Scale - (d[j] \div 2)]

\* num_vectors
NumVectors == Len(content_embeddings) * sessions_per_vector

\* a selection that does not ask whether the index has been built
UseFaissWhenLarge == use_faiss /\ NumVectors >= FaissThreshold

\* use_faiss_search
UseFaissSearch == use_faiss /\ faiss_built /\ NumVectors >= FaissThreshold

\* A filter loop that admits an index as soon as one given filter accepts it.
FilterMatchAny(filters, meta) ==
    \/ /\ "time_range" \in filters.keys
       /\ filters.time_range[1] <= meta.start_timestamp
       /\ meta.start_timestamp <= filters.time_range[2]
    \/ /\ "participants" \in filters.keys
       /\ filters.participants \cap meta.participants # {}

\* The filter loop's `match` for one metadata dict.
FilterMatch(filters, meta) ==
    /\ "time_range" \in filters.keys
         => /\ filters.time_range[1] <= meta.start_timestamp
            /\ meta.start_timestamp <= filters.time_range[2]
    /\ "participants" \in filters.keys
         => filters.participants \cap meta.participants # {}

\* valid_indices, ascending
ValidIndices(filters) ==
    IF filters.keys = {} THEN [i \in 1..Len(metadata) |-> i]
    ELSE SelectSeq([i \in 1..Len(metadata) |-> i],
                   LAMBDA i : FilterMatch(filters, metadata[i]))

\* What a call on the store came to; backend names the vector search that
\* hybrid_search called ("none" before that point and for other calls).
Raised(what) ==
    [ok |-> FALSE, error |-> what, results |-> <<>>,
     content_similarities |-> <<>>, context_similarities |-> <<>>,
     backend |-> "none"]

Returned(results, csims, xsims) ==
    [ok |-> TRUE, error |-> "", results |-> results,
     content_similarities |-> csims, context_similarities |-> xsims,
     backend |-> "none"]

\* hybrid_search after the BM25 index is known to exist: `index` is the BM25
\* index in use. Weights are in hundredths.
HybridSearchWith(index, q, qtext, qctx, top_k, filters, bm25_weight, vector_weight, content_weight, context_weight) ==
    LET bm25n    == Bm25Norm(Bm25Scores(qtext, index.corpus))
        csims    == IF UseFaissSearch
                    THEN FaissSimilarities(q, content_faiss_index)
                    ELSE LinearSimilarities(q, content_embeddings)
        xsims    == IF qctx = NoVector THEN <<>>
                    ELSE IF UseFaissSearch
                         THEN FaissSimilarities(qctx, context_faiss_index)
                         ELSE LinearSimilarities(qctx, context_embeddings)
        vlen     == Len(csims)
        vector_scores ==
            IF qctx = NoVector THEN csims
            ELSE [i \in 1..vlen |->
                    (content_weight * csims[i] + context_weight * xsims[i]) \div 100]
        m        == Len(bm25n)
        \* numpy broadcasting of bm25_scores_norm against vector_scores
        hlen     == IF m = vlen THEN m ELSE IF m = 1 THEN vlen ELSE IF vlen = 1 THEN m ELSE 0
        hybrid   == [i \in 1..hlen |->
                      (bm25_weight * bm25n[IF m = 1 THEN 1 ELSE i]
                         + vector_weight * vector_scores[IF vlen = 1 THEN 1 ELSE i]) \div 100]
        valid    == ValidIndices(filters)
        order    == Head_n(ArgsortDesc([j \in 1..Len(valid) |-> hybrid[valid[j]]]), top_k)
    IN
    IF m # vlen /\ m # 1 /\ vlen # 1 THEN Raised("ValueError")
    ELSE IF valid = <<>> THEN Returned(<<>>, <<>>, <<>>)
    ELSE IF \E j \in 1..Len(valid) : valid[j] > hlen \/ valid[j] > m \/ valid[j] > vlen
         THEN Raised("IndexError")
    ELSE Returned([r \in 1..Len(order) |->
                     [score         |-> hybrid[valid[order[r]]],
                      bm25_score    |-> bm25n[valid[order[r]]],
                      vector_score  |-> vector_scores[valid[order[r]]],
                      content_score |-> csims[valid[order[r]]],
                      metadata      |-> metadata[valid[order[r]]],
                      index         |-> valid[order[r]]]],
                  <<>>, <<>>)

\* build_bm25_index: BM25Okapi over the tokens of every stored content_text
BuiltBm25 ==
    [built |-> TRUE, corpus |-> [i \in 1..Len(metadata) |-> metadata[i].content_text]]

\* the BM25 index hybrid_search scores with: built on the spot when it is None
Bm25InUse == IF bm25_index.built THEN bm25_index ELSE BuiltBm25

\* hybrid_search with the default weights of its signature
HybridSearchResult(q, qtext, qctx, top_k, filters) ==
    IF Len(content_embeddings) = 0 THEN Returned(<<>>, <<>>, <<>>)
    ELSE [HybridSearchWith(Bm25InUse, q, qtext, qctx, top_k, filters, 50, 50, 85, 15)
            EXCEPT !.backend = IF UseFaissSearch THEN "_faiss_vector_search"
                               ELSE "_linear_vector_search"]

\* a call on record; the fusion weights are those of the signature unless the
\* caller passed others
Call(op, q, qtext, qctx, top_k, filters) ==
    [op |-> op, q |-> q, qtext |-> qtext, qctx |-> qctx, top_k |-> top_k,
     filters |-> filters, bm25_weight |-> 50, vector_weight |-> 50]

\* a call that is no search
OtherCall(op) == Call(op, NoVector, {}, NoVector, 0, NoFilter)

NoCall == OtherCall("none")

ReturnedNone == Returned(<<>>, <<>>, <<>>)

StoreInit ==
    /\ content_embeddings = <<>>
    /\ context_embeddings = <<>>
    /\ metadata = <<>>
    /\ bm25_index = NoIndex
    /\ use_faiss \in BOOLEAN
    /\ stable_argsort \in BOOLEAN
    /\ sessions_per_vector \in (IF use_faiss THEN CorpusScales ELSE {1})
    /\ faiss_built = FALSE
    /\ content_faiss_index = <<>>
    /\ context_faiss_index = <<>>
    /\ hs_call = NoCall
    /\ hs_result = ReturnedNone

\* SimpleVectorStore.add
Add ==
    /\ Len(metadata) < MaxStore
    /\ \E doc \in Addable(metadata) :
         /\ content_embeddings' = Append(content_embeddings, doc.content_embedding)
         /\ context_embeddings' = Append(context_embeddings, doc.context_embedding)
         /\ metadata' = Append(metadata, doc.metadata)
    /\ hs_call' = OtherCall("add")
    /\ hs_result' = ReturnedNone
    /\ UNCHANGED <<bm25_index, use_faiss, stable_argsort, sessions_per_vector, faiss_built,
                   content_faiss_index, context_faiss_index, sbVars, rcVars, geVars>>

\* build_bm25_index (BM25Okapi divides by the corpus size: it raises on an
\* empty store and self.bm25_index keeps its value)
BuildBm25Index ==
    /\ bm25_index' = IF Len(metadata) = 0 THEN bm25_index ELSE BuiltBm25
    /\ hs_call' = OtherCall("build_bm25_index")
    /\ hs_result' = IF Len(metadata) = 0 THEN Raised("ZeroDivisionError")
                    ELSE ReturnedNone
    /\ UNCHANGED <<content_embeddings, context_embeddings, metadata, use_faiss,
                   stable_argsort, sessions_per_vector, faiss_built, content_faiss_index,
                   context_faiss_index, sbVars, rcVars, geVars>>

\* build_faiss_index
BuildFaissIndex ==
    /\ use_faiss
    /\ Len(content_embeddings) # 0
    /\ content_faiss_index' =
         [i \in 1..Len(content_embeddings) |-> Normalize(content_embeddings[i])]
    /\ context_faiss_index' =
         [i \in 1..Len(context_embeddings) |-> Normalize(context_embeddings[i])]
    /\ faiss_built' = TRUE
    /\ hs_call' = OtherCall("build_faiss_index")
    /\ hs_result' = ReturnedNone
    /\ UNCHANGED <<content_embeddings, context_embeddings, metadata, bm25_index,
                   use_faiss, stable_argsort, sessions_per_vector, sbVars, rcVars, geVars>>

\* build_faiss_index returning early: FAISS disabled, or nothing stored
BuildFaissIndexSkipped ==
    /\ (~use_faiss) \/ Len(content_embeddings) = 0
    /\ hs_call' = OtherCall("build_faiss_index")
    /\ hs_result' = ReturnedNone
    /\ UNCHANGED <<storeVars, sbVars, rcVars, geVars>>

\* hybrid_search
HybridSearch ==
    /\ \E query \in QueryPool, top_k \in TopKPool, filters \in FilterPool :
         /\ hs_call' = Call("hybrid_search", query.embedding, query.text,
                            query.context, top_k, filters)
         /\ hs_result' = HybridSearchResult(query.embedding, query.text,
                                            query.context, top_k, filters)
    /\ bm25_index' = IF Len(content_embeddings) = 0 THEN bm25_index ELSE Bm25InUse
    /\ UNCHANGED <<content_embeddings, context_embeddings, metadata, use_faiss,
                   stable_argsort, sessions_per_vector, faiss_built, content_faiss_index,
                   context_faiss_index, sbVars, rcVars, geVars>>

\* the fusion weights a caller passes, in hundredths: BM25 alone, BM25 at 1
\* beside the default vector weight, vectors alone
WeightPool == {<<100, 0>>, <<100, 50>>, <<0, 100>>}

\* the queries searched with passed weights: words of two stored texts, and an
\* embedding close to one of them only
WeightedQueryPool ==
    { [text |-> {"ai", "carol"}, embedding |-> <<1, 0>>, context |-> NoVector] }

\* hybrid_search with bm25_weight and vector_weight passed by the caller
HybridSearchWeightedResult(q, qtext, qctx, top_k, filters, weights) ==
    IF Len(content_embeddings) = 0 THEN Returned(<<>>, <<>>, <<>>)
    ELSE [HybridSearchWith(Bm25InUse, q, qtext, qctx, top_k, filters,
                           weights[1], weights[2], 85, 15)
            EXCEPT !.backend = IF UseFaissSearch THEN "_faiss_vector_search"
                               ELSE "_linear_vector_search"]

HybridSearchWeighted ==
    /\ \E query \in WeightedQueryPool, weights \in WeightPool :
         /\ hs_call' = [Call("hybrid_search", query.embedding, query.text,
                             query.context, MaxStore, NoFilter)
                          EXCEPT !.bm25_weight = weights[1],
                                 !.vector_weight = weights[2]]
         /\ hs_result' = HybridSearchWeightedResult(query.embedding, query.text,
                                                    query.context, MaxStore,
                                                    NoFilter, weights)
    /\ bm25_index' = IF Len(content_embeddings) = 0 THEN bm25_index ELSE Bm25InUse
    /\ UNCHANGED <<content_embeddings, context_embeddings, metadata, use_faiss,
                   stable_argsort, sessions_per_vector, faiss_built, content_faiss_index,
                   context_faiss_index, sbVars, rcVars, geVars>>

\* _linear_vector_search (np.vstack raises on an empty list)
LinearVectorSearch ==
    /\ \E query \in QueryPool :
         /\ hs_call' = Call("_linear_vector_search", query.embedding, {},
                            query.context, 0, NoFilter)
         /\ hs_result' =
              IF Len(content_embeddings) = 0 THEN Raised("ValueError")
              ELSE Returned(<<>>,
                            LinearSimilarities(query.embedding, content_embeddings),
                            IF query.context = NoVector THEN <<>>
                            ELSE LinearSimilarities(query.context, context_embeddings))
    /\ UNCHANGED <<storeVars, sbVars, rcVars, geVars>>

\* _faiss_vector_search (the index objects exist only with use_faiss; a search
\* for the 0 nearest neighbours of an empty index is refused)
FaissVectorSearch ==
    /\ \E query \in QueryPool :
         /\ hs_call' = Call("_faiss_vector_search", query.embedding, {},
                            query.context, 0, NoFilter)
         /\ hs_result' =
              IF ~use_faiss THEN Raised("AttributeError")
              ELSE IF Len(content_faiss_index) = 0 THEN Raised("AssertionError")
              ELSE Returned(<<>>,
                            FaissSimilarities(query.embedding, content_faiss_index),
                            IF query.context = NoVector THEN <<>>
                            ELSE FaissSimilarities(query.context, context_faiss_index))
    /\ UNCHANGED <<storeVars, sbVars, rcVars, geVars>>

NextStore ==
    \/ Add
    \/ BuildBm25Index
    \/ BuildFaissIndex
    \/ BuildFaissIndexSkipped
    \/ HybridSearch
    \/ HybridSearchWeighted
    \/ LinearVectorSearch
    \/ FaissVectorSearch

(***************************************************************************)
(* RecallService                                                           *)
(***************************************************************************)
CacheTtl == 3600
SecondsPerDay == 86400
DefaultMinRelevance == (3 * Scale) \div 10

\* Bounds of the explored service runs: calls made, and the length of a clock
\* tick.
MaxCalls == 2
TickStep == 1800

\* A context string, by the way it was composed.
Ctx(kind, word, day) == [kind |-> kind, word |-> word, day |-> day]

FreeCtx(word) == Ctx("free", word, 0)

\* f"关于{topic}的讨论"
TopicCtx(topic) == Ctx("topic", topic, 0)

\* f"与{person}的对话或提到{person}的讨论"
PeopleCtx(person) == Ctx("people", person, 0)

\* f"在 {ref_dt.strftime('%Y-%m-%d')} 前后的对话": only the day of the reference
\* time enters the string
TimeCtx(reference_time) == Ctx("time", "", reference_time \div SecondsPerDay)

\* jieba.cut_for_search(context): the tokens that can occur in a stored text
ContextTokens(context) ==
    CASE context.kind = "free"   -> {"ai", "project"}
      [] context.kind = "topic"  -> {context.word}
      [] context.kind = "people" -> {context.word}
      [] OTHER                   -> {}

\* embedding_client.get_embeddings([context])[0]
Embed(context) ==
    CASE context.kind = "free"   -> <<1, 0>>
      [] context.kind = "topic"  -> <<3, 4>>
      [] context.kind = "people" -> <<0, 1>>
      [] OTHER                   -> <<0, 1>>

\* _auto_recall_strategy: who-words, then when-words, in the context string
AutoRecallStrategy(context) ==
    IF context.kind = "free" /\ context.word = "who" THEN "people"
    ELSE IF context.kind = "free" /\ context.word = "when" THEN "temporal"
    ELSE "semantic"

\* time_range: keys is the set of keys of the dict (empty for None and {})
TimeRange(keys, start, end) == [keys |-> keys, start |-> start, end |-> end]

NoTimeRange == TimeRange({}, 0, 0)

\* _build_filters
BuildFilters(time_range, clock) ==
    IF time_range.keys = {} THEN NoFilter
    ELSE Filter({"time_range"},
                <<IF "start" \in time_range.keys THEN time_range.start ELSE 0,
                  IF "end" \in time_range.keys THEN time_range.end ELSE clock>>,
                {})

\* _generate_memory_id: md5 of f"{conversation_name}_{start_timestamp}"
GenerateMemoryId(meta) == <<meta.conversation_name, meta.start_timestamp>>

\* _generate_cache_key: md5 of f"{context}_{recall_type}_{top_k}"
GenerateCacheKey(context, recall_type, top_k, min_relevance, time_range) ==
    <<context, recall_type, top_k>>

\* _generate_recall_reason, without the formatted score
GenerateRecallReason(result, strategy) ==
    LET byScore == (IF result.bm25_score > Scale \div 2 THEN <<"keyword">> ELSE <<>>)
                   \o (IF result.vector_score > (7 * Scale) \div 10
                       THEN <<"semantic">> ELSE <<>>)
    IN  IF strategy = "people" THEN byScore \o <<"people">>
        ELSE IF strategy = "temporal" THEN byScore \o <<"temporal">>
        ELSE IF strategy = "semantic" /\ byScore = <<>> THEN <<"topic">>
        ELSE byScore

\* a memory whose relevance_score is weighted by the strategy
MemoryByStrategy(result, strategy) ==
    [memory_id         |-> GenerateMemoryId(result.metadata),
     content           |-> result.metadata.content_text,
     relevance_score   |-> IF strategy = "people" THEN result.score \div 2
                           ELSE result.score,
     recall_reason     |-> GenerateRecallReason(result, strategy),
     timestamp         |-> result.metadata.start_timestamp,
     conversation_name |-> result.metadata.conversation_name,
     participants      |-> result.metadata.participants]

\* the memory dict recall builds for one result
Memory(result, strategy) ==
    [memory_id         |-> GenerateMemoryId(result.metadata),
     content           |-> result.metadata.content_text,
     relevance_score   |-> result.score,
     recall_reason     |-> GenerateRecallReason(result, strategy),
     timestamp         |-> result.metadata.start_timestamp,
     conversation_name |-> result.metadata.conversation_name,
     participants      |-> result.metadata.participants]

\* the time a computed recall measures for itself, in ms
ProcessingMs == 40

\* recall's result dict; request_id and status_code are 0 until the router
\* answers with it
Response(memories, strategy) ==
    [memories |-> memories, total_count |-> Len(memories),
     recall_strategy |-> strategy, processing_time_ms |-> 0, request_id |-> 0,
     status_code |-> 0]

\* get_embeddings([context])[0]: the provider's vector, or the zero vector of
\* the except branch
ZeroVector == <<0, 0>>

GetEmbedding(context, provider_up) ==
    IF provider_up THEN Embed(context) ELSE ZeroVector

\* recall, from "生成查询向量" to "构建结果": the response computed on a cache miss
\* with query_embedding as the query vector
ComputeRecallWith(in, clock, query_embedding) ==
    LET strategy == IF in.recall_type = "auto" THEN AutoRecallStrategy(in.context)
                    ELSE in.recall_type
        raw      == HybridSearchResult(query_embedding, ContextTokens(in.context),
                                       NoVector, in.top_k * 2,
                                       BuildFilters(in.time_range, clock)).results
        filtered == Head_n(SelectSeq(raw, LAMBDA r : r.score >= in.min_relevance),
                           in.top_k)
    IN [Response([k \in 1..Len(filtered) |-> Memory(filtered[k], strategy)],
                 strategy)
          EXCEPT !.processing_time_ms = ProcessingMs]

ComputeRecall(in, clock) == ComputeRecallWith(in, clock, Embed(in.context))

RecallInput(context, recall_type, top_k, min_relevance, time_range) ==
    [context |-> context, recall_type |-> recall_type, top_k |-> top_k,
     min_relevance |-> min_relevance, time_range |-> time_range]

KeyOf(in) ==
    GenerateCacheKey(in.context, in.recall_type, in.top_k, in.min_relevance,
                     in.time_range)

\* a probe that asks for an entry only, whatever its age
CacheHitAnyAge(c, in, clock) == KeyOf(in) \in DOMAIN c

\* the cache probe: an entry for the key, younger than the TTL
CacheHit(c, in, clock) ==
    /\ KeyOf(in) \in DOMAIN c
    /\ clock - c[KeyOf(in)].timestamp < CacheTtl

\* what recall(in) returns: the cached dict on a hit, the computed one otherwise
RecallReturn(c, in, clock) ==
    IF CacheHit(c, in, clock) THEN c[KeyOf(in)].data ELSE ComputeRecall(in, clock)

CachePut(c, key, data, clock) ==
    [k \in DOMAIN c \cup {key} |->
        IF k = key THEN [data |-> data, timestamp |-> clock] ELSE c[k]]

\* the cache recall(in) leaves, ret being what it returns: a miss stores the
\* computed dict under the key
CacheAfterRecall(c, in, ret, clock) ==
    IF CacheHit(c, in, clock) THEN c ELSE CachePut(c, KeyOf(in), ret, clock)

\* a post-filter that drops the mentions but leaves total_count as it was
DirectOnlyStaleCount(resp, person) ==
    [resp EXCEPT !.memories =
                    SelectSeq(resp.memories, LAMBDA m : person \in m.participants)]

\* recall_by_people's post-filter of result['memories']
DirectOnly(resp, person) ==
    LET kept == SelectSeq(resp.memories, LAMBDA m : person \in m.participants)
    IN [resp EXCEPT !.memories = kept, !.total_count = Len(kept)]

\* result is the dict held by the cache entry: assigning to its keys changes
\* the entry's data
CacheAfterMutation(c, key, data) ==
    [c EXCEPT ![key] = [data |-> data, timestamp |-> c[key].timestamp]]

\* recall_by_time's window
TimeWindow(reference_time, direction, time_window) ==
    LET before == reference_time - time_window * SecondsPerDay
        after  == reference_time + time_window * SecondsPerDay
    IN  IF direction = "before" THEN TimeRange({"start", "end"}, before, reference_time)
        ELSE IF direction = "after"
             THEN TimeRange({"start", "end"}, reference_time, after)
        ELSE TimeRange({"start", "end"}, before, after)

\* The inputs the model draws from
RecallContexts == {FreeCtx("ai project"), PeopleCtx("bob")}

RecallTypes == {"auto", "people"}

TopKs == {2}

MinRelevances == {DefaultMinRelevance, 2 * DefaultMinRelevance}

RecallTimeRanges == {NoTimeRange, TimeRange({"start", "end"}, 1500, 3500)}

Persons == {"bob"}

Topics == {"ai"}

ReferenceTimes == {2500}

Directions == {"before", "after", "around"}

TimeWindows == {1}

NoInput == RecallInput(Ctx("none", "", 0), "none", 0, 0, NoTimeRange)

NoResponse == Response(<<>>, "none")

ApiCall(op, arg, top_k, flag) == [op |-> op, arg |-> arg, top_k |-> top_k, flag |-> flag]

\* RecallService.__init__: load the store, build both indexes, empty cache
ServiceInit ==
    /\ content_embeddings = [k \in 1..Len(DocPool) |-> DocPool[k].content_embedding]
    /\ context_embeddings = [k \in 1..Len(DocPool) |-> DocPool[k].context_embedding]
    /\ metadata = [k \in 1..Len(DocPool) |-> DocPool[k].metadata]
    /\ bm25_index =
         [built |-> TRUE,
          corpus |-> [k \in 1..Len(DocPool) |-> DocPool[k].metadata.content_text]]
    /\ use_faiss = TRUE
    /\ stable_argsort \in BOOLEAN
    /\ sessions_per_vector = 1
    /\ faiss_built = TRUE
    /\ content_faiss_index =
         [k \in 1..Len(DocPool) |-> Normalize(DocPool[k].content_embedding)]
    /\ context_faiss_index =
         [k \in 1..Len(DocPool) |-> Normalize(DocPool[k].context_embedding)]
    /\ hs_call = NoCall
    /\ hs_result = ReturnedNone
    /\ cache = <<>>
    /\ now = 0
    /\ n_calls = 0
    /\ rc_call = NoInput
    /\ rc_ret = NoResponse
    /\ from_cache = FALSE
    /\ provider_failed = FALSE
    /\ api_call = ApiCall("none", "", 0, FALSE)
    /\ api_resp = NoResponse
    /\ first_ret = <<>>

ServiceIdle ==
    /\ cache = <<>>
    /\ now = 0
    /\ n_calls = 0
    /\ rc_call = NoInput
    /\ rc_ret = NoResponse
    /\ from_cache = FALSE
    /\ provider_failed = FALSE
    /\ api_call = ApiCall("none", "", 0, FALSE)
    /\ api_resp = NoResponse
    /\ first_ret = <<>>

\* One recall(in) invocation returning ret, inside the service method `call`
\* that answers resp and leaves the cached dict of the key as `held`.
Invoked(in, ret, call, resp, held) ==
    /\ n_calls' = n_calls + 1
    /\ rc_call' = in
    /\ rc_ret' = ret
    /\ from_cache' = CacheHit(cache, in, now)
    /\ first_ret' = IF in \in DOMAIN first_ret THEN first_ret
                    ELSE [x \in DOMAIN first_ret \cup {in} |->
                            IF x = in THEN ret.memories ELSE first_ret[x]]
    /\ cache' = CacheAfterMutation(CacheAfterRecall(cache, in, ret, now),
                                   KeyOf(in), held)
    /\ api_call' = call
    /\ api_resp' = resp
    /\ UNCHANGED <<now, storeVars, searchVars, sbVars, geVars>>

\* routers/recall.py recall_memories: the fields of recall's dict under a
\* fresh request_id (uuid4, here the number of the call), status 200
RouterResponse(result, id) ==
    [result EXCEPT !.request_id = id, !.status_code = 200]

\* recall called through its route
Forwarded(in, ret, call) ==
    Invoked(in, ret, call, RouterResponse(ret, n_calls + 1), ret)

\* what the recall_by_* methods answer: result['memories'], result['total_count']
Answer(result) ==
    [memories |-> result.memories, total_count |-> result.total_count,
     recall_strategy |-> "none", processing_time_ms |-> 0, request_id |-> 0,
     status_code |-> 0]

Wrapped(in, ret, call) == Invoked(in, ret, call, Answer(ret), ret)

\* recall
Recall ==
    /\ n_calls < MaxCalls
    /\ provider_failed' = FALSE
    /\ \E context \in RecallContexts, recall_type \in RecallTypes, top_k \in TopKs,
          min_relevance \in MinRelevances, time_range \in RecallTimeRanges :
         Forwarded(RecallInput(context, recall_type, top_k, min_relevance, time_range),
                   RecallReturn(cache,
                                RecallInput(context, recall_type, top_k, min_relevance,
                                            time_range),
                                now),
                   ApiCall("recall", "", top_k, FALSE))

\* recall_by_topic
RecallByTopicWith(in, topic) ==
    Wrapped(in, RecallReturn(cache, in, now),
              ApiCall("recall_by_topic", topic, in.top_k, FALSE))

RecallByTopic ==
    /\ n_calls < MaxCalls
    /\ provider_failed' = FALSE
    /\ \E topic \in Topics, top_k \in TopKs, min_relevance \in {DefaultMinRelevance} :
         RecallByTopicWith(RecallInput(TopicCtx(topic), "semantic", top_k,
                                       min_relevance, NoTimeRange),
                           topic)

\* recall_by_people, result being the dict recall returned
PeopleAnswer(result, person, include_mentions) ==
    IF include_mentions THEN result ELSE DirectOnly(result, person)

RecallByPeopleWith(in, result, after, person, include_mentions) ==
    Invoked(in, result,
            ApiCall("recall_by_people", person, in.top_k, include_mentions),
            Answer(after), after)

RecallByPeopleOn(in, result, person, include_mentions) ==
    RecallByPeopleWith(in, result, PeopleAnswer(result, person, include_mentions),
                       person, include_mentions)

RecallByPeopleIn(in, person, include_mentions) ==
    RecallByPeopleOn(in, RecallReturn(cache, in, now), person, include_mentions)

RecallByPeople ==
    /\ n_calls < MaxCalls
    /\ provider_failed' = FALSE
    /\ \E person \in Persons, top_k \in TopKs, include_mentions \in BOOLEAN :
         RecallByPeopleIn(RecallInput(PeopleCtx(person), "people", top_k,
                                      DefaultMinRelevance, NoTimeRange),
                          person, include_mentions)

\* recall_by_time
RecallByTimeWith(in, direction) ==
    Wrapped(in, RecallReturn(cache, in, now),
              ApiCall("recall_by_time", direction, in.top_k, FALSE))

RecallByTime ==
    /\ n_calls < MaxCalls
    /\ provider_failed' = FALSE
    /\ \E reference_time \in ReferenceTimes, direction \in Directions,
          time_window \in TimeWindows, top_k \in TopKs :
         RecallByTimeWith(RecallInput(TimeCtx(reference_time), "temporal", top_k,
                                      DefaultMinRelevance,
                                      TimeWindow(reference_time, direction, time_window)),
                          direction)

\* recall called through its route, the embedding provider answering or not
RecallReturnWith(c, in, clock, provider_up) ==
    IF CacheHit(c, in, clock) THEN c[KeyOf(in)].data
    ELSE ComputeRecallWith(in, clock, GetEmbedding(in.context, provider_up))

RecallEmbedding ==
    /\ n_calls < MaxCalls
    /\ \E context \in RecallContexts, recall_type \in RecallTypes, top_k \in TopKs,
          min_relevance \in {DefaultMinRelevance}, provider_up \in BOOLEAN :
         /\ provider_failed'
              = (~provider_up
                 /\ ~CacheHit(cache,
                              RecallInput(context, recall_type, top_k, min_relevance,
                                          NoTimeRange),
                              now))
         /\ Forwarded(RecallInput(context, recall_type, top_k, min_relevance,
                                  NoTimeRange),
                      RecallReturnWith(cache,
                                       RecallInput(context, recall_type, top_k,
                                                   min_relevance, NoTimeRange),
                                       now, provider_up),
                      ApiCall("recall", "", top_k, FALSE))

\* a cache that already holds a placeholder for the key when the call aborts
CacheWrittenEarly(c, in, clock) == CachePut(c, KeyOf(in), NoResponse, clock)

\* the cache a recall leaves that stops before "缓存结果": no statement up to
\* there assigns to self._cache
CacheOnAbort(c, in, clock) == c

\* recall cancelled while it waits for the embedding provider (the
\* cancellation is no Exception, so get_embeddings lets it pass): the call
\* ends at "生成查询向量" without a result
RecallCancelled ==
    /\ n_calls < MaxCalls
    /\ \E context \in RecallContexts, recall_type \in RecallTypes, top_k \in TopKs :
         LET in == RecallInput(context, recall_type, top_k, DefaultMinRelevance,
                               NoTimeRange)
         IN /\ ~CacheHit(cache, in, now)
            /\ rc_call' = in
            /\ cache' = CacheOnAbort(cache, in, now)
            /\ api_call' = ApiCall("recall", "cancelled", top_k, FALSE)
    /\ n_calls' = n_calls + 1
    /\ rc_ret' = NoResponse
    /\ api_resp' = NoResponse
    /\ from_cache' = FALSE
    /\ provider_failed' = FALSE
    /\ UNCHANGED <<now, first_ret, storeVars, searchVars, sbVars, geVars>>

\* simple_search: its results list, as memories
SimpleSearchResponse(query, top_k, query_embedding) ==
    LET results == HybridSearchResult(query_embedding, ContextTokens(query), NoVector,
                                      top_k, NoFilter).results
    IN Response([k \in 1..Len(results) |->
                   [Memory(results[k], "none") EXCEPT !.recall_reason = <<"keyword">>]],
                "none")

SimpleSearch ==
    /\ \E query \in {FreeCtx("ai project")}, top_k \in TopKs,
          provider_up \in BOOLEAN :
         /\ provider_failed' = ~provider_up
         /\ api_call' = ApiCall("simple_search", query.word, top_k, FALSE)
         /\ api_resp' = SimpleSearchResponse(query, top_k,
                                             GetEmbedding(query, provider_up))
    /\ UNCHANGED <<cache, now, n_calls, rc_call, rc_ret, from_cache, first_ret,
                   storeVars, searchVars, sbVars, geVars>>

\* time passes between two calls; the clock is followed until an entry cached
\* at time 0 has expired
Tick ==
    /\ now < CacheTtl
    /\ now' = now + TickStep
    /\ UNCHANGED <<cache, n_calls, rc_call, rc_ret, from_cache, provider_failed,
                   api_call, api_resp, first_ret,
                   storeVars, searchVars, sbVars, geVars>>

NextRecall == Recall \/ RecallByTopic \/ RecallByPeople \/ RecallByTime \/ Tick

NextEmbedding == RecallEmbedding \/ RecallCancelled \/ SimpleSearch \/ Tick

(***************************************************************************)
(* GoogleEmbeddingClient.get_embeddings                                    *)
(***************************************************************************)
batch_size == 250

\* The longest input explored, in provider requests.
MaxBatches == 4

\* the lengths of texts explored: around every multiple of batch_size
TextCounts ==
    {0, batch_size - 1}
    \cup {n * batch_size + d : n \in 0..(MaxBatches - 1), d \in {0, 1}}

\* emb.values of the provider's answer for one text (texts are numbered)
ProviderVector(text) == <<text, 1>>

\* texts[i:i+batch_size]
Batch == SubSeq(texts, ge_i + 1, Min(ge_i + batch_size, Len(texts)))

\* a fallback of one zero vector for the whole request
FallbackOnce(batch) == <<ZeroVector>>

\* [[0.0] * 768 for _ in batch]
Fallback(batch) == [k \in 1..Len(batch) |-> ZeroVector]

Request(ok) == [first |-> ge_i, size |-> Len(Batch), ok |-> ok]

EmbeddingInit ==
    /\ texts \in {[k \in 1..n |-> k] : n \in TextCounts}
    /\ ge_i = 0
    /\ all_embeddings = <<>>
    /\ requests = <<>>
    /\ ge_pc = "loop"

EmbeddingIdle ==
    /\ texts = <<>>
    /\ ge_i = 0
    /\ all_embeddings = <<>>
    /\ requests = <<>>
    /\ ge_pc = "idle"

\* loop body, the provider answers
RequestAnswered ==
    /\ ge_pc = "loop"
    /\ ge_i < Len(texts)
    /\ all_embeddings' =
         all_embeddings \o [k \in 1..Len(Batch) |-> ProviderVector(Batch[k])]
    /\ requests' = Append(requests, Request(TRUE))
    /\ ge_i' = ge_i + batch_size
    /\ UNCHANGED <<texts, ge_pc, sbVars, storeVars, searchVars, rcVars>>

\* loop body, the provider raises
RequestFailed ==
    /\ ge_pc = "loop"
    /\ ge_i < Len(texts)
    /\ all_embeddings' = all_embeddings \o Fallback(Batch)
    /\ requests' = Append(requests, Request(FALSE))
    /\ ge_i' = ge_i + batch_size
    /\ UNCHANGED <<texts, ge_pc, sbVars, storeVars, searchVars, rcVars>>

\* return all_embeddings
ReturnEmbeddings ==
    /\ ge_pc = "loop"
    /\ ge_i >= Len(texts)
    /\ ge_pc' = "done"
    /\ UNCHANGED <<texts, ge_i, all_embeddings, requests, sbVars, storeVars,
                   searchVars, rcVars>>

NextGetEmbeddings == RequestAnswered \/ RequestFailed \/ ReturnEmbeddings

(***************************************************************************)
(* Specifications                                                          *)
(***************************************************************************)
SessionIdle ==
    /\ messages = <<>>
    /\ current_batch = <<>>
    /\ batches = <<>>
    /\ sessions = <<>>
    /\ sb_pc = "idle"

\* Each specification runs one component; the others stay as constructed.
InitSession ==
    SessionInit /\ StoreInit /\ use_faiss /\ stable_argsort
    /\ sessions_per_vector = 1 /\ ServiceIdle /\ EmbeddingIdle

InitStore == SessionIdle /\ StoreInit /\ ServiceIdle /\ EmbeddingIdle

InitRecall == SessionIdle /\ ServiceInit /\ EmbeddingIdle

InitGetEmbeddings ==
    SessionIdle /\ StoreInit /\ use_faiss /\ stable_argsort
    /\ sessions_per_vector = 1 /\ ServiceIdle /\ EmbeddingInit

SpecSession == InitSession /\ [][NextSession]_vars

SpecStore == InitStore /\ [][NextStore]_vars

SpecRecall == InitRecall /\ [][NextRecall]_vars

SpecEmbedding == InitRecall /\ [][NextEmbedding]_vars

SpecGetEmbeddings == InitGetEmbeddings /\ [][NextGetEmbeddings]_vars

(***************************************************************************)
(* Session builder: claims                                                 *)
(***************************************************************************)
MainOf(ss) == SelectSeq(ss, LAMBDA s : s.session_type = "main")

OverlapOf(ss) == SelectSeq(ss, LAMBDA s : s.session_type = "overlap")

\* C4: every session tagged main that split_into_sessions returns holds at
\* least min_messages (3) and at most max_messages (20) messages.
SegmentSize ==
    \A k \in 1..Len(sessions) :
        sessions[k].session_type = "main"
            => /\ Len(sessions[k].messages) >= MinMessages
               /\ Len(sessions[k].messages) <= MaxMessages

\* C4 witness: a returned list with a main session cut at the cap of 20 and
\* another main session after it.
SegmentSizeWitness ==
    /\ sb_pc = "done"
    /\ Len(MainOf(sessions)) >= 2
    /\ \E k \in 1..Len(sessions) :
         /\ sessions[k].session_type = "main"
         /\ Len(sessions[k].messages) = MaxMessages

\* C5 (as claimed): whenever the loop admits a message whose gap to the
\* previous admitted message exceeds time_gap, or finds the current batch at
\* max_messages, a new batch starts with that message alone; a batch that then
\* has fewer than min_messages is dropped (batches is left as it was and none
\* of its messages is carried into the new batch).
BatchingRule ==
    [][ (/\ sb_pc = "phase1"
         /\ Len(messages') = Len(messages) + 1
         /\ Admitted(Last(messages'))
         /\ ShouldSplit(current_batch, Last(messages').timestamp))
        => (/\ current_batch' = <<Len(messages')>>
            /\ Len(current_batch) < MinMessages => batches' = batches) ]_vars

\* C6: no message of the input belongs to two different main sessions of one
\* returned list.
SegmentDisjoint ==
    \A j, k \in 1..Len(sessions) :
        (/\ j # k
         /\ sessions[j].session_type = "main"
         /\ sessions[k].session_type = "main")
            => Range(sessions[j].messages) \cap Range(sessions[k].messages) = {}

\* C6 witness: a returned list with three main sessions.
SegmentDisjointWitness ==
    /\ sb_pc = "done"
    /\ Len(MainOf(sessions)) >= 3

\* The overlap session o bridges the boundary between main sessions k and k+1.
Bridges(o, mains, k) ==
    /\ Last(mains[k].messages) \in Range(o.messages)
    /\ mains[k + 1].messages[1] \in Range(o.messages)

\* C7: every overlap session holds only messages of the two main sessions next
\* to the boundary it bridges, at most overlap_window (5) from each.
OverlapContainment ==
    LET mains == MainOf(sessions) IN
    \A j \in 1..Len(sessions) :
        sessions[j].session_type = "overlap" =>
            \E k \in 1..(Len(mains) - 1) :
                LET o    == Range(sessions[j].messages)
                    prev == Range(mains[k].messages)
                    next == Range(mains[k + 1].messages)
                IN /\ Bridges(sessions[j], mains, k)
                   /\ o \subseteq prev \cup next
                   /\ Cardinality(o \cap prev) <= OverlapWindow
                   /\ Cardinality(o \cap next) <= OverlapWindow

\* C7 witness: an overlap session of 5 + 5 messages next to a main session
\* that is longer than the window.
OverlapContainmentWitness ==
    /\ sb_pc = "done"
    /\ \E j \in 1..Len(sessions) :
         /\ sessions[j].session_type = "overlap"
         /\ Len(sessions[j].messages) = 2 * OverlapWindow
    /\ Len(MainOf(sessions)[1].messages) > OverlapWindow

\* Scenario S1: 25 text messages 5 minutes apart, one 90 minutes later, 4 more.
IsS1 ==
    /\ Len(messages) = 30
    /\ \A i \in 1..Len(messages) : Admitted(messages[i])
    /\ \A i \in 2..Len(messages) :
         TsOf(i) - TsOf(i - 1) = IF i = 26 THEN 90 ELSE 5

Interval(a, b) == [i \in 1..(b - a + 1) |-> a + i - 1]

SizesOf(ss) == [k \in 1..Len(ss) |-> Len(ss[k].messages)]

\* C8 (as claimed): on S1 the call returns a main session of 20 messages, drops
\* the remainder of the first run, returns a main session of 4 messages and
\* one overlap session.
ScenarioS1AsClaimed ==
    (sb_pc = "done" /\ IsS1) =>
        /\ SizesOf(MainOf(sessions)) = <<20, 4>>
        /\ Len(OverlapOf(sessions)) = 1

\* C8 (amended): on S1 the call returns three main sessions, of messages
\* 1..20, 21..25 and 26..30 (the remainder of the first run has 5 >= min_messages
\* messages and is kept; the last run has 5 messages), followed by two overlap
\* sessions: 16..25 across the cut at max_messages and 21..30 across the
\* 90-minute gap.
ScenarioS1 ==
    (sb_pc = "done" /\ IsS1) =>
        /\ [k \in 1..Len(sessions) |-> sessions[k].session_type]
              = <<"main", "main", "main", "overlap", "overlap">>
        /\ [k \in 1..Len(sessions) |-> sessions[k].messages]
              = <<Interval(1, 20), Interval(21, 25), Interval(26, 30),
                  Interval(16, 25), Interval(21, 30)>>

\* C8 witness: split_into_sessions has returned on the S1 stream.
ScenarioS1Witness == sb_pc = "done" /\ IsS1

(***************************************************************************)
(* Hybrid store: claims                                                    *)
(***************************************************************************)
\* the FAISS indexes hold the vectors of the present store
FaissIndexCurrent ==
    /\ faiss_built
    /\ content_faiss_index =
         [i \in 1..Len(content_embeddings) |-> Normalize(content_embeddings[i])]
    /\ context_faiss_index =
         [i \in 1..Len(context_embeddings) |-> Normalize(context_embeddings[i])]

\* the similarity the ANN back-end assigns to one stored vector
AnnSimilarity(query, stored) == Scale - (L2Sq(Normalize(query), Normalize(stored)) \div 2)

\* C9: back-end agreement per index. Whenever _faiss_vector_search has answered
\* over indexes built on the present store, position i of the content
\* similarity vector holds the similarity of the i-th stored content vector to
\* the query, and, when a context query was given, position i of the context
\* similarity vector that of the i-th stored context vector.
BackendAgreement ==
    (hs_call.op = "_faiss_vector_search" /\ hs_result.ok /\ FaissIndexCurrent)
      => /\ \A i \in 1..Len(content_embeddings) :
              hs_result.content_similarities[i]
                = AnnSimilarity(hs_call.q, content_embeddings[i])
         /\ hs_call.qctx # NoVector
              => \A i \in 1..Len(context_embeddings) :
                   hs_result.context_similarities[i]
                     = AnnSimilarity(hs_call.qctx, context_embeddings[i])

\* the eligible set of a filters dict over the present metadata
Eligible(filters) ==
    {i \in 1..Len(metadata) :
        /\ \/ "time_range" \notin filters.keys
           \/ /\ filters.time_range[1] <= metadata[i].start_timestamp
              /\ metadata[i].start_timestamp <= filters.time_range[2]
        /\ \/ "participants" \notin filters.keys
           \/ metadata[i].participants \cap filters.participants # {}}

ResultIndices(results) == {results[r].index : r \in 1..Len(results)}

\* C10: filter semantics of hybrid_search. Every result of a hybrid_search
\* that returned comes from an index in the eligible set (time_range and
\* participants, each only when given, composed by conjunction) and carries
\* that index's metadata; no index is returned twice, and the results are as
\* many as top_k and the eligible set allow, so with top_k large enough they
\* are exactly the eligible set.
FilterSemantics ==
    (hs_call.op = "hybrid_search" /\ hs_result.ok)
      => LET results == hs_result.results
             eligible == Eligible(hs_call.filters)
         IN /\ \A r \in 1..Len(results) :
                 /\ results[r].index \in eligible
                 /\ results[r].metadata = metadata[results[r].index]
            /\ Cardinality(ResultIndices(results)) = Len(results)
            /\ Len(results) = Min(hs_call.top_k, Cardinality(eligible))

\* sessions at 1000, 2000, 3000, 4000 searched with time_range [1500, 3500]:
\* exactly those at 2000 and 3000 come back
FilterSemanticsWitness ==
    /\ hs_call.op = "hybrid_search"
    /\ hs_result.ok
    /\ [i \in 1..Len(metadata) |-> metadata[i].start_timestamp]
         = <<1000, 2000, 3000, 4000>>
    /\ hs_call.filters = Filter({"time_range"}, <<1500, 3500>>, {})
    /\ {hs_result.results[r].metadata.start_timestamp :
          r \in 1..Len(hs_result.results)} = {2000, 3000}

\* The arrays a hybrid_search call fused, recomputed for the call on record:
\* the normalized BM25 scores of the index in use and the vector scores of the
\* back-end it called.
Bm25Used == Bm25Norm(Bm25Scores(hs_call.qtext, bm25_index.corpus))

SimilaritiesUsed(query, embeddings, index) ==
    IF hs_result.backend = "_faiss_vector_search"
    THEN FaissSimilarities(query, index)
    ELSE LinearSimilarities(query, embeddings)

VectorUsed(i) ==
    IF hs_call.qctx = NoVector
    THEN SimilaritiesUsed(hs_call.q, content_embeddings, content_faiss_index)[i]
    ELSE (85 * SimilaritiesUsed(hs_call.q, content_embeddings,
                                content_faiss_index)[i]
          + 15 * SimilaritiesUsed(hs_call.qctx, context_embeddings,
                                  context_faiss_index)[i]) \div 100

HybridUsed(i) ==
    (hs_call.bm25_weight * Bm25Used[i] + hs_call.vector_weight * VectorUsed(i)) \div 100

\* C11: ranking of hybrid_search. A hybrid_search that returned holds exactly
\* min(top_k, number of eligible indices) results, in non-increasing order of
\* score; the score of a result is
\* bm25_weight * bm25_n[i] + vector_weight * vec[i] of its index i, and no
\* eligible index that was left out has a greater hybrid score than a
\* returned result.
HybridRanking ==
    (hs_call.op = "hybrid_search" /\ hs_result.ok)
      => LET results == hs_result.results
             eligible == Eligible(hs_call.filters)
         IN /\ Len(results) = Min(hs_call.top_k, Cardinality(eligible))
            /\ \A r \in 1..Len(results) :
                 /\ results[r].score = HybridUsed(results[r].index)
                 /\ results[r].score
                      = (hs_call.bm25_weight * results[r].bm25_score
                         + hs_call.vector_weight * results[r].vector_score) \div 100
                 /\ r < Len(results) => results[r].score >= results[r + 1].score
            /\ \A i \in eligible \ ResultIndices(results) :
                 \A r \in 1..Len(results) : HybridUsed(i) <= results[r].score

\* a search that returned three results of different scores and left a fourth
\* eligible index out
HybridRankingWitness ==
    /\ hs_call.op = "hybrid_search"
    /\ hs_result.ok
    /\ Len(hs_result.results) = 3
    /\ Cardinality(Eligible(hs_call.filters)) = 4
    /\ hs_result.results[1].score > hs_result.results[2].score
    /\ hs_result.results[2].score > hs_result.results[3].score
    /\ hs_result.results[1].index > hs_result.results[2].index

\* C12: tie-break. In the results of a hybrid_search that returned, of two
\* results with equal score the one with the smaller index comes first, and an
\* eligible index left out with the score of a returned result is larger
\* than that result's index.
TieBreak ==
    (hs_call.op = "hybrid_search" /\ hs_result.ok)
      => LET results == hs_result.results
         IN /\ \A r \in 1..Len(results) :
                 (r < Len(results) /\ results[r].score = results[r + 1].score)
                   => results[r].index < results[r + 1].index
            /\ \A i \in Eligible(hs_call.filters) \ ResultIndices(results) :
                 \A r \in 1..Len(results) :
                   HybridUsed(i) = results[r].score => results[r].index < i

\* C13: lexical index state. After any sequence of add, build_bm25_index and
\* hybrid_search, the BM25 index a hybrid_search on a non-empty store has
\* scored with is built over exactly the sessions stored at that time.
LexicalIndexCurrent ==
    (hs_call.op = "hybrid_search" /\ Len(metadata) > 0)
      => /\ bm25_index.built
         /\ bm25_index.corpus
              = [i \in 1..Len(metadata) |-> metadata[i].content_text]

\* C14: back-end selection (a step that leaves a hybrid_search on record is a
\* step of HybridSearch). A hybrid_search on a non-empty store calls the
\* ANN back-end if and only if FAISS is enabled, the ANN index has been built
\* and the corpus holds at least 5000 sessions, and the linear back-end in
\* every other case; the call leaves the ANN index and its built flag as they
\* were.
BackendSelection ==
    [][hs_call'.op = "hybrid_search"
         => /\ UNCHANGED <<use_faiss, faiss_built, content_faiss_index,
                           context_faiss_index>>
            /\ Len(content_embeddings) > 0
                 => LET ann == /\ use_faiss
                               /\ faiss_built
                               /\ Len(content_embeddings) * sessions_per_vector >= 5000
                    IN /\ ann => hs_result'.backend = "_faiss_vector_search"
                       /\ ~ann => hs_result'.backend = "_linear_vector_search"]_vars

\* a search answered through the ANN back-end, and the index is as built
BackendSelectionWitness ==
    /\ hs_call.op = "hybrid_search"
    /\ hs_result.ok
    /\ hs_result.backend = "_faiss_vector_search"
    /\ hs_result.results # <<>>
    /\ FaissIndexCurrent

(***************************************************************************)
(* Recall service: claims                                                  *)
(***************************************************************************)
\* C1: filter soundness of recall. Every memory in the response of a recall
\* call that carried time_range [a, b] has a <= timestamp <= b, whatever the
\* earlier calls were.
FilterSoundness ==
    rc_call.time_range.keys = {"start", "end"}
      => \A k \in 1..Len(rc_ret.memories) :
           /\ rc_call.time_range.start <= rc_ret.memories[k].timestamp
           /\ rc_ret.memories[k].timestamp <= rc_call.time_range.end

\* C2: determinism of recall. The memories a recall call returns are the
\* memories the first recall call with the same inputs returned, whatever
\* service calls came between the two.
RecallDeterminism ==
    rc_call \in DOMAIN first_ret => rc_ret.memories = first_ret[rc_call]

\* C3: relevance cutoff of recall. The response of every recall call holds at
\* most top_k memories, each with relevance_score >= the min_relevance of
\* that call.
RelevanceCutoff ==
    rc_call # NoInput
      => /\ Len(rc_ret.memories) <= rc_call.top_k
         /\ \A k \in 1..Len(rc_ret.memories) :
              rc_ret.memories[k].relevance_score >= rc_call.min_relevance

\* C15: cache TTL. A recall call finding an entry for its key
\* (context, recall_type, top_k) of age below 3600 s returns that entry's
\* data and leaves its timestamp; a call finding no entry, or one whose age has
\* reached 3600 s, returns a freshly computed response and leaves under the
\* key an entry stamped with the time of the call.
CacheTtlRule ==
    [][n_calls' = n_calls + 1
         => LET key   == <<rc_call'.context, rc_call'.recall_type, rc_call'.top_k>>
                fresh == key \in DOMAIN cache /\ now - cache[key].timestamp < 3600
            IN /\ key \in DOMAIN cache'
               /\ fresh => /\ rc_ret' = cache[key].data
                           /\ cache'[key].timestamp = cache[key].timestamp
               /\ ~fresh => /\ rc_ret' = ComputeRecall(rc_call', now)
                            /\ cache'[key].timestamp = now]_vars

\* the second of two calls with one key found the entry expired and
\* recomputed
CacheTtlRuleWitness ==
    /\ n_calls = 2
    /\ Cardinality(DOMAIN cache) = 1
    /\ ~from_cache
    /\ now >= CacheTtl
    /\ cache[KeyOf(rc_call)].timestamp = now

\* C16: scenario S5. When a recall request directly follows a recall request
\* with the same inputs whose cache entry is still fresh, its response has
\* processing_time_ms strictly less than that of the first, the same
\* memories, and a different request_id.
ScenarioS5 ==
    [][(/\ n_calls' = n_calls + 1
        /\ api_call.op = "recall"
        /\ api_call'.op = "recall"
        /\ rc_call' = rc_call
        /\ now - cache[KeyOf(rc_call)].timestamp < CacheTtl)
         => /\ api_resp'.processing_time_ms < api_resp.processing_time_ms
            /\ api_resp'.memories = api_resp.memories
            /\ api_resp'.request_id # api_resp.request_id]_vars

\* C17: provider failure at query time. When the embedding provider failed
\* while recall or simple_search embedded the query, the caller gets no
\* memories (none ranked with a substitute query vector), and a recall request
\* is not answered with status 200.
ProviderFailureReported ==
    provider_failed
      => /\ api_resp.memories = <<>>
         /\ api_call.op = "recall" => api_resp.status_code # 200

PeopleDirectOnly ==
    (api_call.op = "recall_by_people" /\ ~api_call.flag)
      => /\ rc_call.context = PeopleCtx(api_call.arg)
         /\ rc_call.recall_type = "people"
         /\ rc_call.top_k = api_call.top_k
         /\ api_resp.memories
              = SelectSeq(rc_ret.memories,
                          LAMBDA m : api_call.arg \in m.participants)
         /\ api_resp.total_count = Len(api_resp.memories)

\* a call that dropped a mention and kept a direct conversation
PeopleDirectOnlyWitness ==
    /\ api_call.op = "recall_by_people"
    /\ ~api_call.flag
    /\ api_resp.memories # <<>>
    /\ Len(api_resp.memories) < Len(rc_ret.memories)

\* the memory_ids and relevance scores of a response, in order
RankedIds(resp) ==
    [k \in 1..Len(resp.memories) |->
       <<resp.memories[k].memory_id, resp.memories[k].relevance_score>>]

\* C20: strategy is advisory. When a recall call that is computed (its key
\* not in the cache) follows a computed recall call that differs from it only
\* in recall_type, the two responses hold the same memory_ids in the same
\* order with the same relevance scores.
StrategyAdvisory ==
    [][(/\ n_calls' = n_calls + 1
        /\ ~from_cache
        /\ ~from_cache'
        /\ rc_call'.recall_type # rc_call.recall_type
        /\ rc_call' = [rc_call EXCEPT !.recall_type = rc_call'.recall_type])
         => RankedIds(rc_ret') = RankedIds(rc_ret)]_vars

\* two computed calls that differ in recall_type only: the memories differ (in
\* recall_reason) while ids and scores agree
StrategyAdvisoryWitness ==
    /\ n_calls = 2
    /\ ~from_cache
    /\ rc_ret.memories # <<>>
    /\ \E in \in DOMAIN first_ret :
         /\ in.recall_type # rc_call.recall_type
         /\ in = [rc_call EXCEPT !.recall_type = in.recall_type]
         /\ first_ret[in] # rc_ret.memories
         /\ [k \in 1..Len(first_ret[in]) |-> first_ret[in][k].memory_id]
              = [k \in 1..Len(rc_ret.memories) |-> rc_ret.memories[k].memory_id]

(***************************************************************************)
(* Store and embedding contracts                                           *)
(***************************************************************************)
\* the positions of the store that hold a zero content vector
ZeroContentIndices ==
    {i \in 1..Len(content_embeddings) :
        \A d \in 1..Len(content_embeddings[i]) : content_embeddings[i][d] = 0}

\* C21: zero-vector sentinel. Whenever _linear_vector_search, or
\* _faiss_vector_search over indexes built on the present store, has answered,
\* every stored session whose content vector is the zero vector has content
\* similarity 0.
ZeroVectorSentinel ==
    (/\ hs_call.op \in {"_linear_vector_search", "_faiss_vector_search"}
     /\ hs_result.ok
     /\ hs_call.op = "_faiss_vector_search" => FaissIndexCurrent)
      => \A i \in ZeroContentIndices : hs_result.content_similarities[i] = 0

\* the linear half of C21 alone
ZeroVectorSentinelLinear ==
    (hs_call.op = "_linear_vector_search" /\ hs_result.ok)
      => \A i \in ZeroContentIndices : hs_result.content_similarities[i] = 0

\* SimpleVectorStore.__init__: self.dimension (the model's vectors have as many
\* components as the provider's zero vector)
dimension == Len(ZeroVector)

\* a vector as the data model describes it: of the store's dimension, and of
\* unit norm or zero
WellFormedVector(v) ==
    /\ Len(v) = dimension
    /\ Dot(v, v) \in {0, 1}

\* C22: write-time invariants of the store. After any sequence of add calls
\* every stored content vector and context vector has exactly dimension
\* components and is unit-norm or zero, and content_embeddings,
\* context_embeddings and metadata have the same length.
WriteTimeInvariants ==
    /\ \A i \in 1..Len(content_embeddings) : WellFormedVector(content_embeddings[i])
    /\ \A i \in 1..Len(context_embeddings) : WellFormedVector(context_embeddings[i])
    /\ Len(content_embeddings) = Len(context_embeddings)
    /\ Len(context_embeddings) = Len(metadata)

\* the length half of C22 alone
StoreAligned ==
    /\ Len(content_embeddings) = Len(context_embeddings)
    /\ Len(context_embeddings) = Len(metadata)

\* C23: score bounds. Whenever hybrid_search has returned results, the
\* normalized BM25 score of every document of the index it scored with lies in
\* [0, 1].
Bm25ScoreBounds ==
    (hs_call.op = "hybrid_search" /\ hs_result.ok /\ hs_result.results # <<>>)
      => \A i \in 1..Len(bm25_index.corpus) :
           /\ 0 <= Bm25Norm(Bm25Scores(hs_call.qtext, bm25_index.corpus))[i]
           /\ Bm25Norm(Bm25Scores(hs_call.qtext, bm25_index.corpus))[i] <= Scale

\* the upper half of C23 alone
Bm25AtMostOne ==
    (hs_call.op = "hybrid_search" /\ hs_result.ok /\ hs_result.results # <<>>)
      => \A i \in 1..Len(bm25_index.corpus) :
           Bm25Norm(Bm25Scores(hs_call.qtext, bm25_index.corpus))[i] <= Scale

\* the results on record are in non-increasing order of normalized BM25 score,
\* and no index left out has a greater one than a returned result
OrderedByBm25 ==
    LET results == hs_result.results
    IN /\ \A r \in 1..Len(results) :
            r < Len(results) => results[r].bm25_score >= results[r + 1].bm25_score
       /\ \A i \in Eligible(hs_call.filters) \ ResultIndices(results) :
            \A r \in 1..Len(results) : Bm25Used[i] <= results[r].bm25_score

\* C24: monotone fusion endpoint. A hybrid_search called with bm25_weight = 1
\* returns its hits in an order that agrees with the order by normalized BM25
\* score alone.
FusionEndpoint ==
    (hs_call.op = "hybrid_search" /\ hs_result.ok /\ hs_call.bm25_weight = 100)
      => OrderedByBm25

\* the endpoint when the caller also passes vector_weight = 0
FusionEndpointVectorOff ==
    (/\ hs_call.op = "hybrid_search"
     /\ hs_result.ok
     /\ hs_call.bm25_weight = 100
     /\ hs_call.vector_weight = 0)
      => OrderedByBm25

\* the request that carried the k-th text
RequestOf(k) ==
    CHOOSE r \in 1..Len(requests) :
      requests[r].first < k /\ k <= requests[r].first + requests[r].size

\* C25: embedding fallback alignment. When get_embeddings has returned, its
\* result holds one vector per text, in input order: the provider's vector of
\* the text when the request that carried it was answered, the zero vector
\* when that request failed. The requests carry consecutive slices of at most
\* batch_size texts that together cover the input, whatever failed before.
FallbackAlignment ==
    ge_pc = "done"
      => /\ Len(all_embeddings) = Len(texts)
         /\ \A r \in 1..Len(requests) :
              /\ requests[r].size <= batch_size
              /\ requests[r].size > 0
              /\ requests[r].first = (IF r = 1 THEN 0
                                      ELSE requests[r - 1].first + requests[r - 1].size)
         /\ (IF requests = <<>> THEN 0
             ELSE requests[Len(requests)].first + requests[Len(requests)].size)
              = Len(texts)
         /\ \A k \in 1..Len(texts) :
              /\ Len(all_embeddings[k]) = dimension
              /\ all_embeddings[k] = IF requests[RequestOf(k)].ok
                                     THEN ProviderVector(texts[k])
                                     ELSE ZeroVector

\* a call whose first request failed and whose later, shorter request was
\* answered
FallbackAlignmentWitness ==
    /\ ge_pc = "done"
    /\ Len(requests) >= 2
    /\ ~requests[1].ok
    /\ requests[1].size = batch_size
    /\ requests[Len(requests)].ok
    /\ requests[Len(requests)].size < batch_size
    /\ all_embeddings[1] = ZeroVector
    /\ all_embeddings[Len(texts)] # ZeroVector

(***************************************************************************)
(* Session builder and stored sessions: further claims                     *)
(***************************************************************************)
\* generate_embeddings.py: the metadata stored for a session, as far as
\* _generate_memory_id reads it (one split call works on one conversation)
SessionMetadata(session) ==
    [conversation_name |-> "chatA", start_timestamp |-> session.start_time]

\* C26: memory_id identifies a memory. When split_into_sessions has returned,
\* no two sessions of the returned list (main or overlap) get the same
\* memory_id once stored.
MemoryIdUnique ==
    sb_pc = "done"
      => \A a, b \in 1..Len(sessions) :
           a # b => GenerateMemoryId(SessionMetadata(sessions[a]))
                      # GenerateMemoryId(SessionMetadata(sessions[b]))

\* the main sessions alone get pairwise different memory_ids
MemoryIdUniqueMain ==
    sb_pc = "done"
      => \A a, b \in 1..Len(MainOf(sessions)) :
           a # b => GenerateMemoryId(SessionMetadata(MainOf(sessions)[a]))
                      # GenerateMemoryId(SessionMetadata(MainOf(sessions)[b]))

(***************************************************************************)
(* Recall service: further claims                                          *)
(***************************************************************************)
\* C27: frame of recall_by_people. A recall_by_people call with
\* include_mentions = false leaves the cache as its underlying recall left
\* it: the entry of the underlying recall holds what that recall returned, so
\* later calls on the key are answered as if the filtered call had not been
\* made.
PeopleFilterFrame ==
    [][(/\ n_calls' = n_calls + 1
        /\ api_call'.op = "recall_by_people"
        /\ ~api_call'.flag)
         => cache' = CacheAfterRecall(cache, rc_call', rc_ret', now)]_vars

\* the same for include_mentions = true
PeopleMentionsFrame ==
    [][(/\ n_calls' = n_calls + 1
        /\ api_call'.op = "recall_by_people"
        /\ api_call'.flag)
         => cache' = CacheAfterRecall(cache, rc_call', rc_ret', now)]_vars

\* C28: window of recall_by_time. Every memory a recall_by_time call returns
\* has its timestamp inside the window the call computed from reference_time,
\* direction and time_window (the time_range it passed to recall).
TimeWindowRespected ==
    api_call.op = "recall_by_time"
      => \A k \in 1..Len(api_resp.memories) :
           /\ rc_call.time_range.start <= api_resp.memories[k].timestamp
           /\ api_resp.memories[k].timestamp <= rc_call.time_range.end

\* the same for the calls whose recall was computed, not served from the cache
TimeWindowRespectedOnMiss ==
    (api_call.op = "recall_by_time" /\ ~from_cache)
      => \A k \in 1..Len(api_resp.memories) :
           /\ rc_call.time_range.start <= api_resp.memories[k].timestamp
           /\ api_resp.memories[k].timestamp <= rc_call.time_range.end

\* the messages claimed for the overlap across the boundary after batch k: the
\* last overlap_window messages of batch k, then the first overlap_window of
\* batch k + 1 (all of a batch that has fewer)
ClaimedOverlap(k) ==
    LET prev == batches[k]
        next == batches[k + 1]
        a    == Min(OverlapWindow, Len(prev))
        b    == Min(OverlapWindow, Len(next))
    IN [i \in 1..(a + b) |-> IF i <= a THEN prev[Len(prev) - a + i] ELSE next[i - a]]

\* the boundaries the claim gives an overlap session: gap of at most 2 hours,
\* and at least min_messages messages in the overlap
ClaimedBoundaries ==
    {k \in 1..(Len(batches) - 1) :
        /\ TsOf(batches[k + 1][1]) - TsOf(batches[k][Len(batches[k])]) <= OverlapMaxGap
        /\ Len(ClaimedOverlap(k)) >= MinMessages}

\* C29: overlap phase. When split_into_sessions has returned, each pair of
\* consecutive batches at most 2 hours apart has exactly one overlap session,
\* made of the last 5 messages of the earlier batch and the first 5 of the
\* later one; there is no other overlap session, and every overlap session
\* comes after every main session.
OverlapPhase ==
    sb_pc = "done"
      => /\ \A k \in ClaimedBoundaries :
              Cardinality({j \in 1..Len(sessions) :
                             /\ sessions[j].session_type = "overlap"
                             /\ sessions[j].messages = ClaimedOverlap(k)}) = 1
         /\ Len(OverlapOf(sessions)) = Cardinality(ClaimedBoundaries)
         /\ \A i, j \in 1..Len(sessions) :
              (sessions[i].session_type = "overlap" /\ sessions[j].session_type = "main")
                => j < i

\* three batches: the first cut at max_messages, a second shorter than the
\* overlap window, a third more than 2 hours later; one overlap session
OverlapPhaseWitness ==
    /\ sb_pc = "done"
    /\ Len(batches) = 3
    /\ Len(batches[2]) < OverlapWindow
    /\ TsOf(batches[3][1]) - TsOf(batches[2][Len(batches[2])]) > OverlapMaxGap
    /\ Len(OverlapOf(sessions)) = 1
    /\ Len(OverlapOf(sessions)[1].messages) = OverlapWindow + Len(batches[2])

\* the admitted messages of the stream, and those no main session holds
AdmittedIndices == {i \in 1..Len(messages) : Admitted(messages[i])}

MainsHolding(i) ==
    {k \in 1..Len(sessions) :
        /\ sessions[k].session_type = "main"
        /\ \E p \in 1..Len(sessions[k].messages) : sessions[k].messages[p] = i}

Uncovered == {i \in AdmittedIndices : MainsHolding(i) = {}}

====
